---- MODULE Spec2Model ----
(***************************************************************************)
(* Model of profl/featurizer.py: the Featurizer orchestrator and its       *)
(* extractors (Ngrams, FuncWords, TokenPCA, SentimentFeatures,             *)
(* SimpleStats).                                                           *)
(*                                                                         *)
(* Python strings are sequences of one-character strings, so that          *)
(* "_".join and level+"-" are computed, not assumed.  A dict is a sequence *)
(* of [k, v] records in insertion order (the order Python 3 iterates in).  *)
(* A numpy 2-D array is [none, width, rows]; none = TRUE stands for the    *)
(* attribute still holding None.                                           *)
(*                                                                         *)
(* An intermediate result that is read more than once is bound as          *)
(*     CHOOSE v \in {body(x) : x \in {e}} : TRUE                           *)
(* which is LET x == e IN body(x) with e evaluated once.                   *)
(***************************************************************************)
EXTENDS Integers, Sequences, FiniteSets, TLC

VARIABLES helpers,   \* Featurizer.helpers: the extractors, in constructor order
          ext,       \* per helper: feats, instances, and call counters
          labels,    \* Featurizer.labels
          corpus,    \* the stream handed to fit and transform
          calls,     \* the Featurizer calls made so far, oldest first
          rets,      \* what each call returned or raised
          stats,     \* SimpleStats: the instance under analysis and its vector
          senti      \* SentimentFeatures: its lexicon, instances and the calls made

vars == <<helpers, ext, labels, corpus, calls, rets, stats, senti>>

-----------------------------------------------------------------------------
(* Bounds *)

MaxCorpus == 2
MaxCalls == 3
MaxStatTokens == 2
MaxSentiTokens == 2

-----------------------------------------------------------------------------
(* Strings *)

S_token == <<"t", "o", "k", "e", "n">>
S_char == <<"c", "h", "a", "r">>
S_pos == <<"p", "o", "s">>

RECURSIVE Join(_, _)
\* sep.join(items)
Join(sep, items) ==
    IF items = <<>> THEN <<>>
    ELSE IF Len(items) = 1 THEN items[1]
    ELSE items[1] \o sep \o Join(sep, Tail(items))

RECURSIVE SplitHead(_, _)
\* s.split(c)[0]: the part of s before the first c
SplitHead(s, c) ==
    IF s = <<>> \/ s[1] = c THEN <<>>
    ELSE <<s[1]>> \o SplitHead(Tail(s), c)

\* [x for x in s if ...]: the elements of s at the places in keep, in order
Filter(s, keep) ==
    LET F[i \in 0..Len(s)] ==
            IF i = 0 THEN <<>>
            ELSE IF i \in keep THEN Append(F[i - 1], s[i]) ELSE F[i - 1]
    IN  F[Len(s)]

-----------------------------------------------------------------------------
(* dict, in insertion order *)

DictHas(d, k) == \E i \in 1..Len(d) : d[i].k = k

DictGet(d, k, default) ==
    IF DictHas(d, k) THEN d[CHOOSE i \in 1..Len(d) : d[i].k = k].v ELSE default

DictKeys(d) == [i \in 1..Len(d) |-> d[i].k]

DictSet(d, k, v) ==
    IF DictHas(d, k)
    THEN [i \in 1..Len(d) |-> IF d[i].k = k THEN [k |-> k, v |-> v] ELSE d[i]]
    ELSE Append(d, [k |-> k, v |-> v])

RECURSIVE DictUpdate(_, _)
\* d.update(e): every value of e replaces the value d held for its key
DictUpdate(d, e) ==
    IF e = <<>> THEN d
    ELSE CHOOSE v \in {DictUpdate(d1, Tail(e)) : d1 \in {DictSet(d, e[1].k, e[1].v)}} : TRUE

RECURSIVE freq_dict(_)
\* utils.freq_dict: key -> number of occurrences in the list
freq_dict(items) ==
    IF items = <<>> THEN <<>>
    ELSE LET n == Len(items)
         IN  CHOOSE v \in {DictSet(d, items[n], DictGet(d, items[n], 0) + 1)
                           : d \in {freq_dict(SubSeq(items, 1, n - 1))}} : TRUE

-----------------------------------------------------------------------------
(* Ngrams *)

LevelStr(level) ==
    CASE level = "token" -> S_token
      [] level = "char" -> S_char
      [] level = "pos" -> S_pos

\* Ngrams.__init__: self.i
TupleIndex(level) == IF level = "token" THEN 1 ELSE 3

\* find_ngrams without the begin and end items
find_ngrams_NoPadding(input_list, n) ==
    LET cnt == IF n >= 1 /\ Len(input_list) - n + 1 > 0 THEN Len(input_list) - n + 1 ELSE 0
    IN  [w \in 1..cnt |-> SubSeq(input_list, w, w + n - 1)]

\* Ngrams.find_ngrams: the windows of size n over [''] + input_list + ['']
find_ngrams(input_list, n) ==
    LET inp == <<<<>>>> \o input_list \o <<<<>>>>
        cnt == IF n >= 1 /\ Len(inp) - n + 1 > 0 THEN Len(inp) - n + 1 ELSE 0
    IN  [w \in 1..cnt |-> SubSeq(inp, w, w + n - 1)]

\* the symbols an Ngrams extractor reads from an instance
Needle(h, raw, frog) ==
    IF h.level = "char" THEN [i \in 1..Len(raw) |-> <<raw[i]>>]
    ELSE [i \in 1..Len(frog) |-> frog[i][TupleIndex(h.level)]]

\* [self.level+"-"+"_".join(item) for item in self.find_ngrams(needle, n)]
NgramKeys(h, needle, n) ==
    LET ws == find_ngrams(needle, n)
    IN  [w \in 1..Len(ws) |-> LevelStr(h.level) \o <<"-">> \o Join(<<"_">>, ws[w])]

RECURSIVE NgramUpdate(_, _, _, _)
\* for n in self.n_list: d.update(freq_dict(...))
NgramUpdate(h, d, needle, ns) ==
    IF ns = <<>> THEN d
    ELSE CHOOSE v \in {NgramUpdate(h, DictUpdate(d, e), needle, Tail(ns))
                       : e \in {freq_dict(NgramKeys(h, needle, ns[1]))}} : TRUE

RECURSIVE SortedByCount(_)
\* sorted(items, reverse=True, key=itemgetter(1)): by descending count; the sort
\* is stable, so items of equal count keep their dict order
SortedByCount(d) ==
    IF d = <<>> THEN <<>>
    ELSE LET n == Len(d)
             x == d[n]
             place(s) == Cardinality({i \in 1..Len(s) : s[i].v >= x.v})
         IN  CHOOSE v \in {SubSeq(s, 1, place(s)) \o <<x>> \o SubSeq(s, place(s) + 1, Len(s))
                           : s \in {SortedByCount(SubSeq(d, 1, n - 1))}} : TRUE

\* s[:m] cut one place too far
Slice_OneTooMany(s, m) ==
    IF m = <<>> THEN s
    ELSE SubSeq(s, 1, IF m[1] + 1 < Len(s) THEN m[1] + 1 ELSE Len(s))

\* s[:m], m = <<>> for None and <<k>> for an integer k
Slice(s, m) ==
    IF m = <<>> THEN s
    ELSE IF m[1] >= 0 THEN SubSeq(s, 1, IF m[1] < Len(s) THEN m[1] ELSE Len(s))
    ELSE SubSeq(s, 1, IF Len(s) + m[1] > 0 THEN Len(s) + m[1] ELSE 0)

\* an extractor after __init__: feats = {}, instances = None.  The other fields
\* are history: how often each method was called, the items the last close_fit
\* of an Ngrams sorted, and how many fit calls had been made when it ran.
NewExt ==
    [ftype |-> "dict", fdict |-> <<>>, flist |-> <<>>,
     inst |-> [none |-> TRUE, width |-> 0, rows |-> <<>>],
     fits |-> 0, closes |-> 0, transforms |-> 0,
     ranked |-> <<>>, fitsAtClose |-> 0]

Ok(x) == [x |-> x, err |-> "none"]
Raise(x, e) == [x |-> x, err |-> e]

\* the keys `for f in self.feats` / len(self.feats) range over
FeatKeys(x) == IF x.ftype = "dict" THEN DictKeys(x.fdict) ELSE x.flist

\* Featurizer.empty_inst: an extractor without an array gets one of 0 rows
empty_inst(inst, lo) ==
    IF inst.none THEN [none |-> FALSE, width |-> Len(lo), rows |-> <<>>] ELSE inst

\* np.append(instances, [row], axis=0)
np_append(x, row) ==
    IF x.inst.width # Len(row) THEN Raise(x, "ValueError")
    ELSE Ok([x EXCEPT !.inst.rows = Append(@, row)])

\* Ngrams.fit
Ngrams_fit(h, x, raw, frog) ==
    IF h.n_list # <<>> /\ x.ftype # "dict"
    THEN Raise([x EXCEPT !.fits = @ + 1], "AttributeError")
    ELSE Ok([x EXCEPT !.fdict = NgramUpdate(h, @, Needle(h, raw, frog), h.n_list),
                      !.fits = @ + 1])

\* Ngrams.close_fit
Ngrams_close_fit(h, x) ==
    IF x.ftype # "dict"
    THEN Raise([x EXCEPT !.closes = @ + 1, !.fitsAtClose = x.fits], "AttributeError")
    ELSE Ok([x EXCEPT !.ftype = "list",
                      !.flist = Slice(DictKeys(SortedByCount(x.fdict)), h.max_feats),
                      !.fdict = <<>>,
                      !.closes = @ + 1,
                      !.ranked = x.fdict,
                      !.fitsAtClose = x.fits])

\* the row [d.get(f, 0) for f in self.feats]
CountRow(x, d) == LET fs == FeatKeys(x) IN [i \in 1..Len(fs) |-> DictGet(d, fs[i], 0)]

\* Ngrams.transform that also takes the instance's new keys into feats
Ngrams_transform_GrowsFeats(h, x, raw, frog) ==
    CHOOSE v \in
        {LET ks == DictKeys(dct)
             new == Filter(ks, {i \in 1..Len(ks) :
                                   \A c \in 1..Len(FeatKeys(x)) : FeatKeys(x)[c] # ks[i]})
             y == [x EXCEPT !.inst = empty_inst(@, FeatKeys(x)), !.transforms = @ + 1]
             r == np_append(y, CountRow(y, dct))
         IN  IF x.ftype = "list" THEN [r EXCEPT !.x.flist = @ \o new] ELSE r
         : dct \in {NgramUpdate(h, <<>>, Needle(h, raw, frog), h.n_list)}} : TRUE

\* Ngrams.transform
Ngrams_transform(h, x, raw, frog) ==
    LET y == [x EXCEPT !.inst = empty_inst(@, FeatKeys(x)), !.transforms = @ + 1]
    IN  CHOOSE v \in {np_append(y, CountRow(y, dct))
                      : dct \in {NgramUpdate(h, <<>>, Needle(h, raw, frog), h.n_list)}} : TRUE

-----------------------------------------------------------------------------
(* FuncWords *)

S_VNW == <<"V", "N", "W">>
S_LID == <<"L", "I", "D">>
S_VZ == <<"V", "Z">>
S_BW == <<"B", "W">>
S_TW == <<"T", "W">>
S_VG == <<"V", "G">>

functors == {S_VNW, S_LID, S_VZ, S_BW, S_TW, S_VG}

RECURSIVE FunctorTokens(_)
\* [item[0] for item in frogstring if item[2].split('(')[0] in functors]
FunctorTokens(frog) ==
    IF frog = <<>> THEN <<>>
    ELSE (IF SplitHead(frog[1][3], "(") \in functors THEN <<frog[1][1]>> ELSE <<>>)
         \o FunctorTokens(Tail(frog))

\* FuncWords.func_freq
func_freq(frog) == freq_dict(FunctorTokens(frog))

\* FuncWords.fit
FuncWords_fit(h, x, raw, frog) ==
    IF x.ftype # "dict" THEN Raise([x EXCEPT !.fits = @ + 1], "AttributeError")
    ELSE Ok([x EXCEPT !.fdict = DictUpdate(@, func_freq(frog)), !.fits = @ + 1])

\* FuncWords.close_fit: self.feats = self.feats.keys()
FuncWords_close_fit(h, x) ==
    IF x.ftype # "dict"
    THEN Raise([x EXCEPT !.closes = @ + 1, !.fitsAtClose = x.fits], "AttributeError")
    ELSE Ok([x EXCEPT !.ftype = "list", !.flist = DictKeys(x.fdict),
                      !.fdict = <<>>, !.closes = @ + 1, !.fitsAtClose = x.fits])

\* FuncWords.transform
FuncWords_transform(h, x, raw, frog) ==
    LET y == [x EXCEPT !.inst = empty_inst(@, FeatKeys(x)), !.transforms = @ + 1]
    IN  CHOOSE v \in {np_append(y, CountRow(y, dct)) : dct \in {func_freq(frog)}} : TRUE

-----------------------------------------------------------------------------
(* TokenPCA *)

\* the default of TokenPCA.__init__'s max_tokens
DefaultMaxTokens == 1000

\* the value of an entry of the projected matrix; the numbers PCA computes are
\* not modelled, only the shape of its result
PCAScore == "score"

\* TokenPCA after __init__: feats = None, instances = None, and neither the
\* vectorizer nor the PCA fitted (pcaFeatures is the number of columns the PCA
\* was fitted on, 0 before)
NewPCA ==
    [ftype |-> "None", fdict |-> <<>>, flist |-> <<>>,
     inst |-> [none |-> TRUE, width |-> 0, rows |-> <<>>],
     fits |-> 0, closes |-> 0, transforms |-> 0,
     ranked |-> <<>>, fitsAtClose |-> 0,
     vocabulary |-> {}, vecFitted |-> FALSE, pcaFeatures |-> 0]

\* the documents TfidfVectorizer(analyzer=identity) reads from raw_data: iterating
\* a string yields its characters, each a document of one token
Documents(raw) == [i \in 1..Len(raw) |-> <<raw[i]>>]

\* the vectorizer's vocabulary: the distinct tokens (the texts of the model hold
\* fewer than max_tokens of them, so none is cut)
Vocabulary(raw) == {Documents(raw)[i][1] : i \in 1..Len(raw)}

\* TokenPCA.fit: fit_transform refuses an empty vocabulary; PCA.fit refuses
\* n_components above min(n_samples, n_features)
TokenPCA_fit(h, x, raw, frog) ==
    LET y == [x EXCEPT !.fits = @ + 1]
        n_samples == Len(Documents(raw))
        n_features == Cardinality(Vocabulary(raw))
    IN  IF Vocabulary(raw) = {} THEN Raise(y, "ValueError")
        ELSE IF h.dimensions > n_samples \/ h.dimensions > n_features
        THEN Raise([y EXCEPT !.vocabulary = Vocabulary(raw), !.vecFitted = TRUE],
                   "ValueError")
        ELSE Ok([y EXCEPT !.vocabulary = Vocabulary(raw), !.vecFitted = TRUE,
                          !.pcaFeatures = n_features, !.ftype = "True"])

\* TokenPCA.close_fit: pass
TokenPCA_close_fit(h, x) == Ok([x EXCEPT !.closes = @ + 1, !.fitsAtClose = x.fits])

\* TokenPCA.transform: self.instances becomes the projection of this call's
\* documents, one row per document; an unfitted vectorizer or PCA raises
\* NotFittedError, and PCA.transform refuses a matrix without rows or with
\* another number of columns than it was fitted on
TokenPCA_transform(h, x, raw, frog) ==
    LET y == [x EXCEPT !.transforms = @ + 1]
    IN  IF ~x.vecFitted \/ x.pcaFeatures = 0 THEN Raise(y, "NotFittedError")
        ELSE IF Documents(raw) = <<>> \/ Cardinality(x.vocabulary) # x.pcaFeatures
        THEN Raise(y, "ValueError")
        ELSE Ok([y EXCEPT !.inst =
                     [none |-> FALSE, width |-> h.dimensions,
                      rows |-> [i \in 1..Len(Documents(raw)) |->
                                   [c \in 1..h.dimensions |-> PCAScore]]]])

-----------------------------------------------------------------------------
(* Featurizer *)

\* Featurizer.__init__: self.space_based
space_based == {"TokenPCA", "Doc2Vec", "L-LDA"}

\* the name attribute each extractor's __init__ sets
NameOf(kind, level) ==
    CASE kind = "FuncWords" -> "func_words"
      [] kind = "Ngrams" /\ level = "token" -> "token_ngram"
      [] kind = "Ngrams" /\ level = "char" -> "char_ngram"
      [] kind = "Ngrams" /\ level = "pos" -> "pos_ngram"
      [] kind = "TokenPCA" -> "token_pca"

\* Ngrams(level, n_list, max_feats)
Ngrams(level, n_list, max_feats) ==
    [kind |-> "Ngrams", name |-> NameOf("Ngrams", level), level |-> level,
     n_list |-> n_list, max_feats |-> max_feats]

\* FuncWords()
FuncWords ==
    [kind |-> "FuncWords", name |-> NameOf("FuncWords", "token"), level |-> "token",
     n_list |-> <<>>, max_feats |-> <<>>]

\* TokenPCA(dimensions)
TokenPCA(dimensions) ==
    [kind |-> "TokenPCA", name |-> NameOf("TokenPCA", "token"), level |-> "token",
     n_list |-> <<>>, max_feats |-> <<>>, dimensions |-> dimensions,
     max_tokens |-> DefaultMaxTokens]

\* a bare feature name handed to Featurizer(features) in place of an extractor
StrFeature ==
    [kind |-> "str", name |-> "nonexistent_feature", level |-> "token",
     n_list |-> <<>>, max_feats |-> <<>>]

\* helper.fit(raw, frog)
helper_fit(h, x, raw, frog) ==
    IF h.kind = "Ngrams" THEN Ngrams_fit(h, x, raw, frog)
    ELSE IF h.kind = "TokenPCA" THEN TokenPCA_fit(h, x, raw, frog)
    ELSE FuncWords_fit(h, x, raw, frog)

\* helper.close_fit()
helper_close_fit(h, x) ==
    IF h.kind = "Ngrams" THEN Ngrams_close_fit(h, x)
    ELSE IF h.kind = "TokenPCA" THEN TokenPCA_close_fit(h, x)
    ELSE FuncWords_close_fit(h, x)

\* helper.transform(raw, frog)
helper_transform(h, x, raw, frog) ==
    IF h.kind = "Ngrams" THEN Ngrams_transform(h, x, raw, frog)
    ELSE IF h.kind = "TokenPCA" THEN TokenPCA_transform(h, x, raw, frog)
    ELSE FuncWords_transform(h, x, raw, frog)

\* func_fit that closes the vocabulary right after the instance's fit
func_call_ClosesEarly(func, h, x, raw, frog) ==
    IF func = "fit"
    THEN CHOOSE v \in {IF r.err # "none" THEN r ELSE helper_close_fit(h, r.x)
                       : r \in {helper_fit(h, x, raw, frog)}} : TRUE
    ELSE helper_transform(h, x, raw, frog)

\* Featurizer.func_fit / Featurizer.func_transform
func_call(func, h, x, raw, frog) ==
    IF func = "fit" THEN helper_fit(h, x, raw, frog)
    ELSE helper_transform(h, x, raw, frog)

RECURSIVE HelperLoop(_, _, _, _, _)
\* loop_helpers: `for helper in self.helpers`, for one instance of the stream
HelperLoop(hs, xs, j, func, inst) ==
    IF j > Len(hs) THEN [exts |-> xs, err |-> "none"]
    ELSE IF hs[j].kind = "str" THEN [exts |-> xs, err |-> "AttributeError"]
    ELSE IF hs[j].name \in space_based THEN HelperLoop(hs, xs, j + 1, func, inst)
    ELSE CHOOSE v \in
             {IF r.err # "none" THEN [exts |-> [xs EXCEPT ![j] = r.x], err |-> r.err]
              ELSE HelperLoop(hs, [xs EXCEPT ![j] = r.x], j + 1, func, inst)
              : r \in {func_call(func, hs[j], xs[j], inst.raw, inst.frog)}} : TRUE

RECURSIVE StreamLoop_LabelsAlways(_, _, _, _)
\* the stream loop appending the label whatever func is
StreamLoop_LabelsAlways(hs, st, stream, func) ==
    IF stream = <<>> THEN st
    ELSE CHOOSE v \in
             {IF r.err # "none"
              THEN [exts |-> r.exts, labels |-> st.labels, err |-> r.err]
              ELSE StreamLoop_LabelsAlways(hs,
                              [exts |-> r.exts,
                               labels |-> Append(st.labels, stream[1].label),
                               err |-> "none"],
                              Tail(stream), func)
              : r \in {HelperLoop(hs, st.exts, 1, func, stream[1])}} : TRUE

RECURSIVE StreamLoop(_, _, _, _)
\* loop_helpers: `for label, raw, frog in stream`
StreamLoop(hs, st, stream, func) ==
    IF stream = <<>> THEN st
    ELSE CHOOSE v \in
             {IF r.err # "none"
              THEN [exts |-> r.exts, labels |-> st.labels, err |-> r.err]
              ELSE StreamLoop(hs,
                              [exts |-> r.exts,
                               labels |-> IF func = "transform"
                                          THEN Append(st.labels, stream[1].label)
                                          ELSE st.labels,
                               err |-> "none"],
                              Tail(stream), func)
              : r \in {HelperLoop(hs, st.exts, 1, func, stream[1])}} : TRUE

RECURSIVE CloseLoop(_, _, _, _)
\* loop_helpers: the second `for helper in self.helpers`
CloseLoop(hs, xs, j, func) ==
    IF j > Len(hs) THEN [exts |-> xs, err |-> "none"]
    ELSE IF hs[j].kind = "str" THEN [exts |-> xs, err |-> "AttributeError"]
    ELSE IF func = "fit"
    THEN CHOOSE v \in
             {IF r.err # "none" THEN [exts |-> [xs EXCEPT ![j] = r.x], err |-> r.err]
              ELSE CloseLoop(hs, [xs EXCEPT ![j] = r.x], j + 1, func)
              : r \in {helper_close_fit(hs[j], xs[j])}} : TRUE
    ELSE CloseLoop(hs, xs, j + 1, func)

RetNone == [kind |-> "None", exc |-> "none", rows |-> <<>>, n |-> 0]
RetRaise(e) == [kind |-> "raise", exc |-> e, rows |-> <<>>, n |-> 0]

RECURSIVE ConcatRow(_, _)
\* row i of the blocks, side by side
ConcatRow(blocks, i) ==
    IF blocks = <<>> THEN <<>>
    ELSE blocks[1].rows[i] \o ConcatRow(Tail(blocks), i)

\* np.hstack(submatrices): None becomes a 1-D array of one object; arrays of one
\* dimension are joined end to end, arrays of two side by side
np_hstack(blocks) ==
    IF blocks = <<>> THEN RetRaise("ValueError")
    ELSE IF \A b \in 1..Len(blocks) : blocks[b].none
    THEN [kind |-> "objarray", exc |-> "none", rows |-> <<>>, n |-> Len(blocks)]
    ELSE IF \E b \in 1..Len(blocks) : blocks[b].none THEN RetRaise("ValueError")
    ELSE IF \E b \in 1..Len(blocks) : Len(blocks[b].rows) # Len(blocks[1].rows)
    THEN RetRaise("ValueError")
    ELSE [kind |-> "matrix", exc |-> "none",
          rows |-> [i \in 1..Len(blocks[1].rows) |-> ConcatRow(blocks, i)],
          n |-> Len(blocks[1].rows)]

\* Featurizer.loop_helpers(stream, func): the state it leaves and what it returns
loop_helpers(hs, xs, labs, stream, func) ==
    CHOOSE v \in
        {IF a.err # "none"
         THEN [exts |-> a.exts, labels |-> a.labels, ret |-> RetRaise(a.err)]
         ELSE CHOOSE w \in
                  {IF b.err # "none"
                   THEN [exts |-> b.exts, labels |-> a.labels, ret |-> RetRaise(b.err)]
                   ELSE [exts |-> b.exts, labels |-> a.labels,
                         ret |-> IF func = "transform"
                                 THEN np_hstack([j \in 1..Len(hs) |-> b.exts[j].inst])
                                 ELSE RetNone]
                   : b \in {CloseLoop(hs, a.exts, 1, func)}} : TRUE
         : a \in {StreamLoop(hs, [exts |-> xs, labels |-> labs, err |-> "none"],
                             stream, func)}} : TRUE

-----------------------------------------------------------------------------
(* SimpleStats *)

LowerCase ==
    {"a", "b", "c", "d", "e", "f", "g", "h", "i", "j", "k", "l", "m",
     "n", "o", "p", "q", "r", "s", "t", "u", "v", "w", "x", "y", "z"}
UpperCase ==
    {"A", "B", "C", "D", "E", "F", "G", "H", "I", "J", "K", "L", "M",
     "N", "O", "P", "Q", "R", "S", "T", "U", "V", "W", "X", "Y", "Z"}
Digits == {"0", "1", "2", "3", "4", "5", "6", "7", "8", "9"}
\* SimpleStats.__init__: the characters regex_punc matches
PuncChars == {"!", "?", ".", ",", ":", ";", "(", ")", "\"", "'", "-"}

\* a number of the vector: a count c is c/1, np.mean of nothing is 0/0 (nan)
Num(c) == [num |-> c, den |-> 1]
NaN == [num |-> 0, den |-> 0]

RECURSIVE SumSeq(_)
SumSeq(xs) == IF xs = <<>> THEN 0 ELSE xs[1] + SumSeq(Tail(xs))

\* np.mean(xs)
np_mean(xs) == IF xs = <<>> THEN NaN ELSE [num |-> SumSeq(xs), den |-> Len(xs)]

\* text cut into maximal runs; glue holds the places that continue the run of
\* the character before them
Runs(text, glue) ==
    LET R[i \in 0..Len(text)] ==
            IF i = 0 THEN <<>>
            ELSE IF i \in glue
            THEN CHOOSE v \in
                     {[prev EXCEPT ![Len(prev)] = Append(@, text[i])] : prev \in {R[i - 1]}}
                     : TRUE
            ELSE Append(R[i - 1], <<text[i]>>)
    IN  R[Len(text)]

\* pnet.floodings(text): the maximal runs of a repeated character, as (run, char)
floodings(text) ==
    LET rs == Runs(text, {i \in 2..Len(text) : text[i] = text[i - 1]})
        fl == Filter(rs, {r \in 1..Len(rs) : Len(rs[r]) >= 2})
    IN  [i \in 1..Len(fl) |-> <<fl[i], fl[i][1]>>]

\* SimpleStats.only_alph
only_alph(fl) == Filter(fl, {i \in 1..Len(fl) : fl[i][2] \in LowerCase \cup UpperCase})

\* SimpleStats.only_punc
only_punc(fl) == Filter(fl, {i \in 1..Len(fl) : fl[i][2] \in PuncChars})

\* SimpleStats.avg_fl_len
avg_fl_len(fl) ==
    IF fl # <<>> THEN np_mean([i \in 1..Len(fl) |-> Len(fl[i][1])]) ELSE Num(0)

\* SimpleStats.flooding_stats
flooding_stats(text) ==
    LET fl == floodings(text)
        fl_alph == only_alph(fl)
        fl_punc == only_punc(fl)
    IN  <<Num(Len(fl)), Num(Len(fl_alph)), Num(Len(fl_punc)),
          avg_fl_len(fl), avg_fl_len(fl_alph), avg_fl_len(fl_punc)>>

\* len(re.findall(cls+, text)): the number of maximal runs of characters in cls
NumSeqs(text, cls) ==
    LET rs == Runs(text, {i \in 2..Len(text) : (text[i] \in cls) = (text[i - 1] \in cls)})
    IN  Len(Filter(rs, {r \in 1..Len(rs) : rs[r][1] \in cls}))

\* SimpleStats.num_punc_seqs
num_punc_seqs(text) == NumSeqs(text, PuncChars)

\* SimpleStats.num_num_seqs
num_num_seqs(text) == NumSeqs(text, Digits)

\* SimpleStats.char_type_stats
char_type_stats(text) == <<Num(num_punc_seqs(text)), Num(num_num_seqs(text))>>

S_EMOTICON == <<"_", "E", "M", "O", "T", "I", "C", "O", "N", "_">>
S_URL == <<"_", "U", "R", "L", "_">>
S_PHOTO == <<"_", "P", "H", "O", "T", "O", "_">>
S_VIDEO == <<"_", "V", "I", "D", "E", "O", "_">>

RECURSIVE CountOcc(_, _)
\* len(re.findall(pat, text)) for a literal pat: matches do not overlap
CountOcc(text, pat) ==
    IF Len(text) < Len(pat) THEN 0
    ELSE IF SubSeq(text, 1, Len(pat)) = pat
    THEN 1 + CountOcc(SubSeq(text, Len(pat) + 1, Len(text)), pat)
    ELSE CountOcc(Tail(text), pat)

\* SimpleStats.num_emoticons
num_emoticons(text) == CountOcc(text, S_EMOTICON)

\* A raw text is a sequence of characters and of occurrences: an occurrence is
\* one element that stands for a stretch of the text that preproc_netlog
\* recognises (an HTML entity, a netlog tag, an URL, an emoticon).
O_AMP == "&amp;"
O_PHOTO == "<photo tag>"
O_VIDEO == "<video tag>"
O_URL == "<url>"
O_EMOTICON == "<emoticon>"

\* every occurrence occ of the text replaced by the characters of rep
Replace(text, occ, rep) ==
    CHOOSE v \in
        {Join(<<>>, [i \in 1..Len(t) |-> IF t[i] = occ THEN rep ELSE <<t[i]>>])
         : t \in {text}} : TRUE

\* pnet.restore_html_symbols: an HTML entity becomes the character it names
restore_html_symbols(text) == Replace(text, O_AMP, <<"&">>)

\* pnet.replace_netlog_tags: a photo or video tag becomes its placeholder
replace_netlog_tags(text) == Replace(Replace(text, O_PHOTO, S_PHOTO), O_VIDEO, S_VIDEO)

\* pnet.replace_url_email: an URL becomes the placeholder _URL_
replace_url_email(text) == Replace(text, O_URL, S_URL)

\* pnet.replace_emoticons: an emoticon becomes the placeholder _EMOTICON_
replace_emoticons(text) == Replace(text, O_EMOTICON, S_EMOTICON)

\* SimpleStats.preprocess: the four rewritings, in this order
preprocess(text) ==
    replace_emoticons(replace_url_email(replace_netlog_tags(restore_html_symbols(text))))

\* SimpleStats.text_based_feats: the text is preprocessed first, and every
\* statistic is taken from the preprocessed text
text_based_feats(text) ==
    CHOOSE v \in
        {flooding_stats(t) \o char_type_stats(t) \o <<Num(num_emoticons(t))>>
         : t \in {preprocess(text)}} : TRUE

\* the part of tok that `$` lets a pattern end at: `$` matches at the end of the
\* string and also just before a newline that ends it
BeforeFinalNewline(tok) ==
    IF tok # <<>> /\ tok[Len(tok)] = "\n" THEN SubSeq(tok, 1, Len(tok) - 1) ELSE tok

\* re.search(regex_word, tok): letters, digits and hyphens only, at least one
\* letter, up to the place `$` matches
IsWord(tok) ==
    LET t == BeforeFinalNewline(tok)
    IN  /\ \A i \in 1..Len(t) : t[i] \in LowerCase \cup UpperCase \cup Digits \cup {"-"}
        /\ \E i \in 1..Len(t) : t[i] \in LowerCase \cup UpperCase

\* re.search(regex_caps, tok): capitals, digits and hyphens only, at least one
\* capital, up to the place `$` matches
IsCaps(tok) ==
    LET t == BeforeFinalNewline(tok)
    IN  /\ \A i \in 1..Len(t) : t[i] \in UpperCase \cup Digits \cup {"-"}
        /\ \E i \in 1..Len(t) : t[i] \in UpperCase

\* SimpleStats.get_words
get_words(tokens) == Filter(tokens, {i \in 1..Len(tokens) : IsWord(tokens[i])})

\* SimpleStats.avg_word_len
avg_word_len(words) == np_mean([i \in 1..Len(words) |-> Len(words[i])])

\* SimpleStats.num_allcaps_words
num_allcaps_words(words) == Len(Filter(words, {i \in 1..Len(words) : IsCaps(words[i])}))

\* SimpleStats.num_startcap_words
num_startcap_words(words) ==
    Len(Filter(words, {i \in 1..Len(words) : words[i] # <<>> /\ words[i][1] \in UpperCase}))

\* SimpleStats.num_urls / num_photos / num_videos
num_equal(tokens, s) == Len(Filter(tokens, {i \in 1..Len(tokens) : tokens[i] = s}))

\* SimpleStats.token_based_feats
token_based_feats(tokens) ==
    LET words == get_words(tokens)
    IN  <<avg_word_len(words), Num(num_allcaps_words(words)),
          Num(num_startcap_words(words)), Num(num_equal(tokens, S_URL)),
          Num(num_equal(tokens, S_PHOTO)), Num(num_equal(tokens, S_VIDEO))>>

\* SimpleStats.avg_sent_length: Counter(sent_nums), then the mean of its values
avg_sent_length(sent_nums) ==
    LET c == freq_dict(sent_nums)
    IN  np_mean([i \in 1..Len(c) |-> c[i].v])

\* SimpleStats.transform: f[3], or 0 for a token tuple without a fourth field
SentNums(frog) == [i \in 1..Len(frog) |-> IF Len(frog[i]) >= 4 THEN frog[i][4] ELSE 0]

\* SimpleStats.transform: the vector fts
stats_vector(text, frog) ==
    text_based_feats(text)
    \o token_based_feats([i \in 1..Len(frog) |-> frog[i][1]])
    \o <<avg_sent_length(SentNums(frog))>>

\* the number of dimensions of the value [[fts]] handed to np.append
NdimOfStatsRow == 3

\* SimpleStats after __init__: feats = None, instances = None
NewStats(text, frog) ==
    [pc |-> "on", text |-> text, frog |-> frog, feats |-> FALSE,
     inst |-> [none |-> TRUE, width |-> 0, rows |-> <<>>],
     fts |-> <<>>, err |-> "none", ncalls |-> 0]

\* SimpleStats.fit
SimpleStats_fit(st) == [st EXCEPT !.feats = TRUE, !.err = "none", !.ncalls = @ + 1]

\* SimpleStats.transform: np.append joins an array of two dimensions with a value
\* of NdimOfStatsRow dimensions, which numpy refuses
SimpleStats_transform(st) ==
    LET fts == stats_vector(st.text, st.frog)
        arr == empty_inst(st.inst, fts)
    IN  IF NdimOfStatsRow # 2
        THEN [st EXCEPT !.inst = arr, !.fts = fts, !.err = "ValueError",
                        !.ncalls = @ + 1]
        ELSE [st EXCEPT !.inst = [arr EXCEPT !.rows = Append(@, fts)], !.fts = fts,
                        !.err = IF arr.width = Len(fts) THEN "none" ELSE "ValueError",
                        !.ncalls = @ + 1]

-----------------------------------------------------------------------------
(* SentimentFeatures *)

\* A regular expression of calculate_sentiment is a sequence of parts, each a
\* set of literal alternatives, with `.*` between one part and the next.
\* SentimentFeatures.calculate_sentiment: token_dict, in the order written (the
\* order Python 3.7 and later iterate it in; the OrderedDict is built from a
\* dict literal, which Python 2 iterates in hash order, and MatcherLoop ends at
\* the first matcher it tries in any order, re_search raising there)
token_dict ==
    <<
      \* r'SPEC\(vreemd\)': ('f', 'f')
      [regx |-> <<{<<"S", "P", "E", "C", "(", "v", "r", "e", "e", "m", "d", ")">>}>>,
       param |-> <<<<"f">>, <<"f">>>>],
      \* r'BW\(\)': ('b', 'b')
      [regx |-> <<{<<"B", "W", "(", ")">>}>>,
       param |-> <<<<"b">>, <<"b">>>>],
      \* r'N\(': ('n', 'n')
      [regx |-> <<{<<"N", "(">>}>>,
       param |-> <<<<"n">>, <<"n">>>>],
      \* r'TWS\(\)': ('i', 'i')
      [regx |-> <<{<<"T", "W", "S", "(", ")">>}>>,
       param |-> <<<<"i">>, <<"i">>>>],
      \* r'ADJ\(': ('a', 'a')
      [regx |-> <<{<<"A", "D", "J", "(">>}>>,
       param |-> <<<<"a">>, <<"a">>>>],
      \* r'WW\((od|vd).*(,prenom|,vrij)': ('a', 'v')
      [regx |-> <<{<<"W", "W", "(", "o", "d">>, <<"W", "W", "(", "v", "d">>}, {<<",", "p", "r", "e", "n", "o", "m">>, <<",", "v", "r", "i", "j">>}>>,
       param |-> <<<<"a">>, <<"v">>>>],
      \* r'WW\((od|vd).*,nom': ('n', 'v')
      [regx |-> <<{<<"W", "W", "(", "o", "d">>, <<"W", "W", "(", "v", "d">>}, {<<",", "n", "o", "m">>}>>,
       param |-> <<<<"n">>, <<"v">>>>],
      \* r'WW\(inf,nom': ('n', 'v')
      [regx |-> <<{<<"W", "W", "(", "i", "n", "f", ",", "n", "o", "m">>}>>,
       param |-> <<<<"n">>, <<"v">>>>],
      \* r'WW\(': ('v', 'v')
      [regx |-> <<{<<"W", "W", "(">>}>>,
       param |-> <<<<"v">>, <<"v">>>>]
    >>

RECURSIVE MatchRest(_, _, _)
\* the parts after the first: `.*` spans the characters from the place start to
\* the next part, and `.` matches no newline
MatchRest(parts, s, start) ==
    IF parts = <<>> THEN TRUE
    ELSE \E alt \in parts[1] : \E p \in start..(Len(s) - Len(alt) + 1) :
             /\ \A q \in start..(p - 1) : s[q] # "\n"
             /\ SubSeq(s, p, p + Len(alt) - 1) = alt
             /\ MatchRest(Tail(parts), s, p + Len(alt))

\* the pattern is found in s: some alternative of the first part occurs at or
\* after the place start, and the other parts follow it
MatchFrom(parts, s, start) ==
    IF parts = <<>> THEN TRUE
    ELSE \E alt \in parts[1] : \E p \in start..(Len(s) - Len(alt) + 1) :
             /\ SubSeq(s, p, p + Len(alt) - 1) = alt
             /\ MatchRest(Tail(parts), s, p + Len(alt))

\* re.search(regx, subject): a subject that is not a string is a TypeError
re_search(regx, subject) ==
    IF subject.type # "str" THEN [err |-> "TypeError", found |-> FALSE]
    ELSE [err |-> "none", found |-> MatchFrom(regx, subject.val, 1)]

\* key in self.lexiconDict
LexHas(lex, key) ==
    \E i \in 1..Len(lex) : Len(lex[i].k) = Len(key) /\ lex[i].k = key

\* self.lexiconDict[key]
LexGet(lex, key) ==
    lex[CHOOSE i \in 1..Len(lex) : Len(lex[i].k) = Len(key) /\ lex[i].k = key].v

RECURSIVE MatcherLoop(_, _, _)
\* calculate_sentiment: `for regx, param in token_dict.items()` for one token,
\* from matcher m on; the names word, pos, lemma, sent_index are bound to the
\* fields of the token in this order
MatcherLoop(lex, token, m) ==
    IF m > Len(token_dict) THEN [err |-> "none", add |-> 0]
    ELSE LET word == token[1]
             lemma == token[3]
             param == token_dict[m].param
         IN  CHOOSE v \in
                 {IF r.err # "none" THEN [err |-> r.err, add |-> 0]
                  ELSE IF r.found
                  THEN IF LexHas(lex, <<word, param[1]>>) \/ LexHas(lex, <<lemma, param[2]>>)
                       THEN IF LexHas(lex, token)
                            THEN [err |-> "none", add |-> LexGet(lex, token)]
                            ELSE [err |-> "KeyError", add |-> 0]
                       ELSE [err |-> "none", add |-> 0]
                  ELSE MatcherLoop(lex, token, m + 1)
                  : r \in {re_search(token_dict[m].regx,
                                     [type |-> "tuple", val |-> token])}} : TRUE

RECURSIVE calculate_sentiment(_, _, _)
\* SentimentFeatures.calculate_sentiment: `for token in instance`, with the
\* polarity_score reached so far
calculate_sentiment(lex, instance, polarity_score) ==
    IF instance = <<>> THEN [err |-> "none", score |-> polarity_score]
    ELSE IF Len(instance[1]) # 4 THEN [err |-> "ValueError", score |-> polarity_score]
    ELSE CHOOSE v \in
             {IF r.err # "none" THEN [err |-> r.err, score |-> polarity_score]
              ELSE calculate_sentiment(lex, Tail(instance), polarity_score + r.add)
              : r \in {MatcherLoop(lex, instance[1], 1)}} : TRUE

\* the length of the string '1' handed to empty_inst
S_one == <<"1">>

\* SentimentFeatures after an __init__ that returns: the lexicon loaded,
\* instances = None
NewSentiment(lex) ==
    [pc |-> "on", lex |-> lex,
     inst |-> [none |-> TRUE, width |-> 0, rows |-> <<>>],
     frogs |-> <<>>, err |-> "none", ncalls |-> 0]

\* SentimentFeatures() before __init__ runs, in an environment: the interpreter
\* (Python 2 or 3), the encoding text files are read with, and the lexicon file
NoSentiment(env) == [pc |-> "new", env |-> env]

\* SentimentFeatures() when __init__ raises: no object is made
FailedSentiment(err) == [pc |-> "failed", err |-> err]

\* SentimentFeatures.__init__: pickle.load(open('profl/sentilexicons.cpickle', 'r')).
\* The file is opened in text mode. Python 3 decodes it: the bytes of a binary
\* pickle are no UTF-8 text, and the pickle module refuses the str it is handed
\* otherwise. Python 2 reads the bytes as they are.
SentimentFeatures_init(env) ==
    IF ~env.file.present
    THEN FailedSentiment(IF env.python = 3 THEN "FileNotFoundError" ELSE "IOError")
    ELSE IF env.python = 3
    THEN FailedSentiment(IF env.file.protocol >= 1 /\ env.encoding = "utf-8"
                         THEN "UnicodeDecodeError" ELSE "TypeError")
    ELSE NewSentiment(env.file.lex)

\* SentimentFeatures.fit
SentimentFeatures_fit(st, frog) == [st EXCEPT !.err = "none", !.ncalls = @ + 1]

\* SentimentFeatures.transform: empty_inst runs first, then the score is
\* computed and appended as a row of one column
SentimentFeatures_transform(st, frog) ==
    LET arr == empty_inst(st.inst, S_one)
    IN  CHOOSE v \in
            {IF r.err # "none"
             THEN [st EXCEPT !.inst = arr, !.frogs = Append(@, frog), !.err = r.err,
                             !.ncalls = @ + 1]
             ELSE [st EXCEPT !.inst = [arr EXCEPT !.rows = Append(@, <<r.score>>)],
                             !.frogs = Append(@, frog), !.err = "none",
                             !.ncalls = @ + 1]
             : r \in {calculate_sentiment(st.lex, frog, 0)}} : TRUE

-----------------------------------------------------------------------------
(* Inputs *)

T_a == <<<<"a">>, <<"a">>, <<"N", "(">>, 0>>
T_b == <<<<"b">>, <<"b">>, <<"N", "(">>, 0>>
T_a_b == <<<<"a", "_", "b">>, <<"a", "_", "b">>, <<"N", "(">>, 1>>
T_de == <<<<"d", "e">>, <<"d", "e">>, <<"L", "I", "D", "(">>, 0>>

\* (label, raw, frog) triples
Instances ==
    { [label |-> "pos", raw |-> <<"a", "b">>, frog |-> <<T_a, T_b>>],
      [label |-> "neg", raw |-> <<>>, frog |-> <<>>],
      [label |-> "neg", raw |-> <<"a", "a">>, frog |-> <<T_a, T_b, T_a_b>>],
      [label |-> "pos", raw |-> <<"b">>, frog |-> <<T_de, T_de, T_a>>] }

RECURSIVE SeqsUpTo(_, _)
\* the sequences over S of length at most n
SeqsUpTo(S, n) ==
    IF n = 0 THEN {<<>>}
    ELSE LET T == SeqsUpTo(S, n - 1)
         IN  T \cup {Append(t, x) : t \in {u \in T : Len(u) = n - 1}, x \in S}

Corpora == SeqsUpTo(Instances, MaxCorpus)

HelperLists ==
    { <<>>,
      <<Ngrams("token", <<1>>, <<>>)>>,
      <<Ngrams("token", <<1, 2>>, <<>>)>>,
      <<Ngrams("token", <<1, 2>>, <<2>>)>>,
      <<Ngrams("char", <<2>>, <<1>>)>>,
      <<Ngrams("pos", <<1>>, <<0>>)>>,
      <<Ngrams("char", <<3>>, <<>>)>>,
      <<FuncWords>>,
      <<Ngrams("token", <<1>>, <<>>), FuncWords>>,
      <<FuncWords, Ngrams("token", <<1>>, <<>>)>>,
      <<Ngrams("char", <<1>>, <<3>>), Ngrams("token", <<2>>, <<1>>)>>,
      <<StrFeature>>,
      <<FuncWords, StrFeature>> }

-----------------------------------------------------------------------------
(* The Featurizer and its callers *)

StatsIdle == [pc |-> "off"]

SentiIdle == [pc |-> "off"]

Init ==
    /\ helpers \in HelperLists
    /\ ext = [j \in 1..Len(helpers) |-> NewExt]
    /\ labels = <<>>
    /\ corpus \in Corpora
    /\ calls = <<>>
    /\ rets = <<>>
    /\ stats = StatsIdle
    /\ senti = SentiIdle

\* Featurizer.fit(stream)
Fit ==
    /\ Len(calls) < MaxCalls
    /\ \E r \in {loop_helpers(helpers, ext, labels, corpus, "fit")} :
           /\ ext' = r.exts
           /\ labels' = r.labels
           /\ rets' = Append(rets, r.ret)
    /\ calls' = Append(calls, "fit")
    /\ UNCHANGED <<helpers, corpus, stats, senti>>

\* Featurizer.transform(stream)
Transform ==
    /\ Len(calls) < MaxCalls
    /\ \E r \in {loop_helpers(helpers, ext, labels, corpus, "transform")} :
           /\ ext' = r.exts
           /\ labels' = r.labels
           /\ rets' = Append(rets, r.ret)
    /\ calls' = Append(calls, "transform")
    /\ UNCHANGED <<helpers, corpus, stats, senti>>

Next == Fit \/ Transform

Spec == Init /\ [][Next]_vars

-----------------------------------------------------------------------------
(* The Featurizer with a TokenPCA among its extractors *)

BatchHelperLists ==
    { <<TokenPCA(1)>>,
      <<TokenPCA(2)>>,
      <<Ngrams("char", <<1>>, <<>>), TokenPCA(1)>>,
      <<TokenPCA(1), FuncWords>> }

InitBatch ==
    /\ helpers \in BatchHelperLists
    /\ ext = [j \in 1..Len(helpers) |->
                 IF helpers[j].kind = "TokenPCA" THEN NewPCA ELSE NewExt]
    /\ labels = <<>>
    /\ corpus \in Corpora
    /\ calls = <<>>
    /\ rets = <<>>
    /\ stats = StatsIdle
    /\ senti = SentiIdle

SpecBatch == InitBatch /\ [][Next]_vars

-----------------------------------------------------------------------------
(* SimpleStats and its callers *)

W_Hi == <<<<"H", "i">>, <<"h", "i">>, <<"N", "(">>, 0>>
W_OK == <<<<"O", "K">>, <<"o", "k">>, <<"N", "(">>, 1>>
W_bang == <<<<"!">>, <<"!">>, <<"L", "E", "T", "(">>, 0>>
W_url == <<S_URL, S_URL, <<"S", "P", "E", "C", "(">>>>
\* tokens that end in a newline
W_hi_nl == <<<<"h", "i", "\n">>, <<"h", "i">>, <<"N", "(">>, 0>>
W_OK_nl == <<<<"O", "K", "\n">>, <<"o", "k">>, <<"N", "(">>, 1>>

StatTokens == {W_Hi, W_OK, W_bang, W_url, W_hi_nl, W_OK_nl}

StatTexts ==
    { <<>>, <<"H", "i">>, <<"a", "a", "a">>, <<"!", "!", "a">>,
      <<"1", "1", "?", "a", "a">>, <<"a", "!", "1">>,
      <<"a", O_EMOTICON, O_EMOTICON>>, <<O_URL, "!", O_PHOTO, O_VIDEO>>,
      <<O_AMP, "&", "a">> }

InitStats ==
    /\ helpers = <<>>
    /\ ext = <<>>
    /\ labels = <<>>
    /\ corpus = <<>>
    /\ calls = <<>>
    /\ rets = <<>>
    /\ \E text \in StatTexts, frog \in SeqsUpTo(StatTokens, MaxStatTokens) :
           stats = NewStats(text, frog)
    /\ senti = SentiIdle

StatsFit ==
    /\ stats.ncalls < MaxCalls
    /\ stats' = SimpleStats_fit(stats)
    /\ UNCHANGED <<helpers, ext, labels, corpus, calls, rets, senti>>

StatsTransform ==
    /\ stats.ncalls < MaxCalls
    /\ stats' = SimpleStats_transform(stats)
    /\ UNCHANGED <<helpers, ext, labels, corpus, calls, rets, senti>>

NextStats == StatsFit \/ StatsTransform

SpecStats == InitStats /\ [][NextStats]_vars

-----------------------------------------------------------------------------
(* SentimentFeatures and its callers *)

G_goed == <<<<"g", "o", "e", "d">>, <<"g", "o", "e", "d">>, <<"A", "D", "J", "(", "p", "r", "e", "n", "o", "m", ")">>, 0>>
G_niet == <<<<"n", "i", "e", "t">>, <<"n", "i", "e", "t">>, <<"B", "W", "(", ")">>, 0>>
G_huis == <<<<"h", "u", "i", "s">>, <<"h", "u", "i", "s">>, <<"N", "(", "s", "o", "o", "r", "t", ")">>, 0>>
G_punt == <<<<".">>, <<".">>, <<"L", "E", "T", "(", ")">>, 1>>
G_gelopen == <<<<"g", "e", "l", "o", "p", "e", "n">>, <<"l", "o", "p", "e", "n">>, <<"W", "W", "(", "v", "d", ",", "v", "r", "i", "j", ")">>, 1>>

\* a tag with a newline between its parts
G_gelopen_nl == <<<<"g", "e", "l", "o", "p", "e", "n">>, <<"l", "o", "p", "e", "n">>, <<"W", "W", "(", "v", "d", "\n", ",", "v", "r", "i", "j", ")">>, 1>>

SentiTokens == {G_goed, G_niet, G_huis, G_punt, G_gelopen, G_gelopen_nl}

\* a lexicon: (word or lemma, part-of-speech letter) -> weight
Lexicon ==
    << [k |-> <<<<"g", "o", "e", "d">>, <<"a">>>>, v |-> 1],
       [k |-> <<<<"n", "i", "e", "t">>, <<"b">>>>, v |-> -1],
       [k |-> <<<<"l", "o", "p", "e", "n">>, <<"v">>>>, v |-> 2] >>

\* the lexicon file as the constructor finds it: absent, or a pickle of the
\* lexicon written with protocol 0 (text) or 2 (binary)
LexiconFiles ==
    {[present |-> FALSE, protocol |-> 0, lex |-> <<>>]}
    \cup {[present |-> TRUE, protocol |-> p, lex |-> Lexicon] : p \in {0, 2}}

SentiEnvs ==
    [python : {2, 3}, encoding : {"utf-8", "latin-1"}, file : LexiconFiles]

InitSenti ==
    /\ helpers = <<>>
    /\ ext = <<>>
    /\ labels = <<>>
    /\ corpus = <<>>
    /\ calls = <<>>
    /\ rets = <<>>
    /\ stats = StatsIdle
    /\ \E env \in SentiEnvs : senti = NoSentiment(env)

SentiConstruct ==
    /\ senti.pc = "new"
    /\ senti' = SentimentFeatures_init(senti.env)
    /\ UNCHANGED <<helpers, ext, labels, corpus, calls, rets, stats>>

SentiFit ==
    /\ senti.pc = "on"
    /\ senti.ncalls < MaxCalls
    /\ \E frog \in SeqsUpTo(SentiTokens, MaxSentiTokens) :
           senti' = SentimentFeatures_fit(senti, frog)
    /\ UNCHANGED <<helpers, ext, labels, corpus, calls, rets, stats>>

SentiTransform ==
    /\ senti.pc = "on"
    /\ senti.ncalls < MaxCalls
    /\ \E frog \in SeqsUpTo(SentiTokens, MaxSentiTokens) :
           senti' = SentimentFeatures_transform(senti, frog)
    /\ UNCHANGED <<helpers, ext, labels, corpus, calls, rets, stats>>

NextSenti == SentiConstruct \/ SentiFit \/ SentiTransform

SpecSenti == InitSenti /\ [][NextSenti]_vars

-----------------------------------------------------------------------------
(* Vocabulary of the properties *)

\* the attributes of an extractor object: feats and instances
ExtState(x) == [ftype |-> x.ftype, fdict |-> x.fdict, flist |-> x.flist, inst |-> x.inst]

Range(s) == {s[i] : i \in 1..Len(s)}

IsExtractor(h) == h.kind \in {"Ngrams", "FuncWords"}

AllExtractors == \A j \in 1..Len(helpers) : IsExtractor(helpers[j])

\* the n-gram keys of one instance, for every n of n_list
InstanceKeys(h, inst) ==
    UNION {Range(NgramKeys(h, Needle(h, inst.raw, inst.frog), h.n_list[m]))
           : m \in 1..Len(h.n_list)}

\* the n-gram keys observed in a corpus
ObservedKeys(h, c) == UNION {InstanceKeys(h, c[i]) : i \in 1..Len(c)}

\* how many items of a list equal k
CountIn(items, k) == Cardinality({i \in 1..Len(items) : items[i] = k})

RECURSIVE NgramOccurrences(_, _, _, _)
\* how many n-grams of the instance, over the sizes ns, have the key k
NgramOccurrences(h, inst, ns, k) ==
    IF ns = <<>> THEN 0
    ELSE CountIn(NgramKeys(h, Needle(h, inst.raw, inst.frog), ns[1]), k)
         + NgramOccurrences(h, inst, Tail(ns), k)

\* how many times the key k occurs in the instance, as the extractor h reads it
Occurrences(h, inst, k) ==
    IF h.kind = "Ngrams" THEN NgramOccurrences(h, inst, h.n_list, k)
    ELSE CountIn(FunctorTokens(inst.frog), k)

\* the place of an extractor name in lexicographic order
NameRank(name) ==
    CASE name = "char_ngram" -> 1
      [] name = "func_words" -> 2
      [] name = "nonexistent_feature" -> 3
      [] name = "pos_ngram" -> 4
      [] name = "token_ngram" -> 5

\* the helper indices in lexicographic order of name
ByName ==
    LET n == Len(helpers)
        before(a, b) == NameRank(helpers[a].name) < NameRank(helpers[b].name)
                        \/ (NameRank(helpers[a].name) = NameRank(helpers[b].name) /\ a < b)
    IN  [p \in 1..n |->
            CHOOSE j \in 1..n : Cardinality({a \in 1..n : before(a, j)}) = p - 1]

OneFitThenTransform == calls = <<"fit", "transform">> /\ rets[2].kind = "matrix"

-----------------------------------------------------------------------------
(* Properties *)

\* C1: after one fit on C, a second transform(C) returns the matrix the first
\* returned and leaves every extractor's feats and instances, and the
\* Featurizer's labels, as the first transform left them.
C1_TransformIdempotent ==
    [][(OneFitThenTransform /\ calls' = <<"fit", "transform", "transform">>)
       => /\ rets'[3] = rets[2]
          /\ labels' = labels
          /\ \A j \in 1..Len(helpers) : ExtState(ext'[j]) = ExtState(ext[j])]_vars

\* C2: a fresh Featurizer fitted on C and then asked to transform C returns a
\* matrix of len(C) rows, the empty corpus included, each extractor's row i being
\* the row of instance i.
C2_FitTransformRowCount ==
    (calls = <<"fit", "transform">> /\ helpers # <<>> /\ AllExtractors)
    => /\ rets[2].kind = "matrix"
       /\ rets[2].n = Len(corpus)
       /\ \A j \in 1..Len(helpers) : \A i \in 1..Len(corpus) :
              \A c \in 1..Len(ext[j].flist) :
                  ext[j].inst.rows[i][c] =
                      DictGet(IF helpers[j].kind = "Ngrams"
                              THEN NgramUpdate(helpers[j], <<>>,
                                               Needle(helpers[j], corpus[i].raw,
                                                      corpus[i].frog),
                                               helpers[j].n_list)
                              ELSE func_freq(corpus[i].frog),
                              ext[j].flist[c], 0)

\* C3: an extractor that was never fitted or closed holds no row, and the call
\* that asked it to transform raised NotFittedError.
C3_TransformBeforeFitRaises ==
    \A j \in 1..Len(helpers) :
        (IsExtractor(helpers[j]) /\ ext[j].fits = 0 /\ ext[j].closes = 0
            /\ ext[j].transforms > 0)
        => /\ ext[j].inst.rows = <<>>
           /\ rets[Len(rets)] = RetRaise("NotFittedError")

\* C4: a closed Ngrams vocabulary holds at most max_feats keys, every one of
\* them an n-gram key of some instance of the corpus it was fitted on, without
\* repetition; with max_feats = None it holds exactly the keys observed.
C4_VocabularyBounded ==
    \A j \in 1..Len(helpers) :
        (helpers[j].kind = "Ngrams" /\ ext[j].ftype = "list")
        => LET h == helpers[j]
               obs == ObservedKeys(h, corpus)
               fs == ext[j].flist
           IN  /\ ext[j].fits >= Len(corpus)
               /\ Range(fs) \subseteq obs
               /\ Cardinality(Range(fs)) = Len(fs)
               /\ h.max_feats # <<>> => Len(fs) <= h.max_feats[1]
               /\ h.max_feats = <<>> => Range(fs) = obs

\* C4 witness: a closed Ngrams vocabulary cut down to max_feats > 0 keys out of
\* more observed ones.
C4_Witness ==
    \E j \in 1..Len(helpers) :
        /\ helpers[j].kind = "Ngrams" /\ ext[j].ftype = "list"
        /\ helpers[j].max_feats # <<>>
        /\ helpers[j].max_feats[1] > 0
        /\ Len(ext[j].flist) = helpers[j].max_feats[1]
        /\ Cardinality(ObservedKeys(helpers[j], corpus)) > helpers[j].max_feats[1]

\* C5: after fit and transform, row i of a count-based extractor has one column
\* per vocabulary key, in vocabulary order, holding the number of occurrences of
\* the key in instance i (0 when it does not occur).
C5_RowCountsOccurrences ==
    (OneFitThenTransform /\ AllExtractors)
    => \A j \in 1..Len(helpers) : \A i \in 1..Len(corpus) :
           /\ Len(ext[j].inst.rows[i]) = Len(ext[j].flist)
           /\ \A c \in 1..Len(ext[j].flist) :
                  ext[j].inst.rows[i][c] =
                      Occurrences(helpers[j], corpus[i], ext[j].flist[c])

\* C6: the matrix transform returns holds the extractors' blocks in
\* lexicographic order of extractor name, whatever the constructor order.
C6_BlocksOrderedByName ==
    (OneFitThenTransform /\ AllExtractors)
    => \A i \in 1..Len(corpus) :
           rets[2].rows[i] =
               ConcatRow([p \in 1..Len(helpers) |-> ext[ByName[p]].inst], i)

\* C7: after every transform(C) that returns, labels has len(C) entries and
\* entry i is the label of instance i of C.
C7_LabelsParallelToCorpus ==
    (calls # <<>> /\ calls[Len(calls)] = "transform" /\ rets[Len(rets)].kind # "raise")
    => labels = [i \in 1..Len(corpus) |-> corpus[i].label]

\* C8: no Featurizer is constructed over a feature that is not a registered
\* extractor; the constructor rejects it (ConfigurationError) before any fit or
\* transform work.
C8_UnknownFeatureRejected ==
    \A j \in 1..Len(helpers) : IsExtractor(helpers[j])

\* C9: transform never returns a matrix whose row count differs from len(C), and
\* a call that ends with a block of another row count raises ShapeMismatchError.
C9_NoWrongShapeMatrix ==
    \A i \in 1..Len(calls) :
        calls[i] = "transform"
        => /\ rets[i].kind = "matrix" => rets[i].n = Len(corpus)
           /\ (i = Len(calls) /\ AllExtractors
                 /\ \E j \in 1..Len(helpers) : Len(ext[j].inst.rows) # Len(corpus))
              => rets[i] = RetRaise("ShapeMismatchError")

IsZero(q) == q.num = 0 /\ q.den # 0

\* C10: in the vector SimpleStats.transform computes, the average flooding
\* lengths are 0 for a text that holds no flooding once preprocessed, the
\* average word length is 0 for
\* tokens without a word, and the average sentence length is 0 without tokens;
\* none of them is undefined.
C10_DegenerateAveragesZero ==
    (stats.pc = "on" /\ stats.fts # <<>>)
    => /\ \A a \in {4, 5, 6, 10, 16} : stats.fts[a].den # 0
       /\ floodings(preprocess(stats.text)) = <<>>
              => IsZero(stats.fts[4]) /\ IsZero(stats.fts[5]) /\ IsZero(stats.fts[6])
       /\ get_words([i \in 1..Len(stats.frog) |-> stats.frog[i][1]]) = <<>>
              => IsZero(stats.fts[10])
       /\ stats.frog = <<>> => IsZero(stats.fts[16])

\* no token of the corpus has a function-word part-of-speech tag
NoFunctorTokens(c) == \A i \in 1..Len(c) : FunctorTokens(c[i].frog) = <<>>

\* the blocks of the extractors other than j, in the order of the helpers
OtherBlocks(j) ==
    Filter([k \in 1..Len(helpers) |-> ext[k].inst], {k \in 1..Len(helpers) : k # j})

\* C12: a FuncWords extractor fitted on a corpus without function-word tokens
\* has an empty vocabulary; after transform its block has len(C) rows and no
\* column, and the matrix transform returns is the other blocks side by side.
C12_ZeroWidthFuncWordsBlock ==
    (calls = <<"fit", "transform">> /\ AllExtractors /\ NoFunctorTokens(corpus))
    => \A j \in 1..Len(helpers) :
           helpers[j].kind = "FuncWords"
           => /\ ext[j].ftype = "list" /\ ext[j].flist = <<>>
              /\ ~ext[j].inst.none
              /\ ext[j].inst.width = 0
              /\ Len(ext[j].inst.rows) = Len(corpus)
              /\ rets[2].kind = "matrix"
              /\ \A i \in 1..Len(corpus) :
                     rets[2].rows[i] = ConcatRow(OtherBlocks(j), i)

RECURSIVE CorpusOccurrences(_, _, _)
\* how many times the key k occurs in the instances of the corpus c together
CorpusOccurrences(h, c, k) ==
    IF c = <<>> THEN 0
    ELSE Occurrences(h, c[1], k) + CorpusOccurrences(h, Tail(c), k)

\* C13: when close_fit runs after fit was called on every instance of C, the
\* frequency it ranks a key by is the number of occurrences of the key over all
\* instances of C and all n of n_list.
C13_FitAddsCounts ==
    \A j \in 1..Len(helpers) :
        (helpers[j].kind = "Ngrams" /\ ext[j].closes = 1
            /\ ext[j].fitsAtClose = Len(corpus))
        => \A i \in 1..Len(ext[j].ranked) :
               ext[j].ranked[i].v =
                   CorpusOccurrences(helpers[j], corpus, ext[j].ranked[i].k)

\* the characters that occur in keys, in code point order
CodeOrder ==
    <<"(", "-", "D", "I", "L", "N", "_", "a", "b", "c",
      "d", "e", "h", "k", "n", "o", "p", "r", "s", "t">>

Ord(c) == CHOOSE i \in 1..Len(CodeOrder) : CodeOrder[i] = c

RECURSIVE StrLess(_, _)
\* s < t, as Python compares strings
StrLess(s, t) ==
    IF t = <<>> THEN FALSE
    ELSE IF s = <<>> THEN TRUE
    ELSE IF s[1] = t[1] THEN StrLess(Tail(s), Tail(t))
    ELSE Ord(s[1]) < Ord(t[1])

\* the keys of the items d by descending frequency, keys of equal frequency in
\* reverse lexicographic order
ByCountThenReverseKey(d) ==
    LET n == Len(d)
        before(a, b) == d[a].v > d[b].v \/ (d[a].v = d[b].v /\ StrLess(d[b].k, d[a].k))
    IN  [p \in 1..n |->
            d[CHOOSE i \in 1..n : Cardinality({a \in 1..n : before(a, i)}) = p - 1].k]

\* C14: the vocabulary close_fit leaves is the first max_feats keys of the
\* candidates ordered by descending frequency, ties by reverse lexicographic
\* key order.
C14_TiesReverseLexicographic ==
    \A j \in 1..Len(helpers) :
        (helpers[j].kind = "Ngrams" /\ ext[j].closes = 1)
        => ext[j].flist = Slice(ByCountThenReverseKey(ext[j].ranked), helpers[j].max_feats)

\* symbol p of a sequence padded with one empty symbol at each end
PaddedAt(needle, p) ==
    IF p = 1 \/ p = Len(needle) + 2 THEN <<>> ELSE needle[p - 1]

\* the number of windows of size n over a padded sequence of L symbols
WindowCount(L, n) == IF n > L + 2 THEN 0 ELSE L + 3 - n

\* the key of window w: the level name, a hyphen, the symbols joined by underscores
WindowKey(h, needle, w, n) ==
    LevelStr(h.level) \o <<"-">>
        \o Join(<<"_">>, [k \in 1..n |-> PaddedAt(needle, w + k - 1)])

\* the keys of the windows of size n of an instance, from left to right
WindowKeys(h, inst, n) ==
    LET needle == Needle(h, inst.raw, inst.frog)
    IN  [w \in 1..WindowCount(Len(needle), n) |-> WindowKey(h, needle, w, n)]

\* the items of s without repetition, each at its first place
FirstOccurrences(s) == Filter(s, {i \in 1..Len(s) : \A m \in 1..(i - 1) : s[m] # s[i]})

Inst_ab == [label |-> "pos", raw |-> <<"a", "b">>, frog |-> <<T_a, T_b>>]

K_token == S_token \o <<"-">>
K_token_a == S_token \o <<"-", "a">>
K_token_b == S_token \o <<"-", "b">>

\* C15: the keys an Ngrams extractor counts are those of the L+3-n windows of
\* the padded symbol sequence (none when n > L+2), from left to right, each key
\* the level name, a hyphen and the window's symbols joined by underscores; for
\* token level, n_list = [1] and tokens a, b the row holds 1 for token-a and
\* token-b and 2 for the boundary key.
C15_WindowsOfPaddedSequence ==
    /\ \A j \in 1..Len(helpers) :
           helpers[j].kind = "Ngrams"
           => LET h == helpers[j]
                  x == ext[j]
              IN  /\ (x.closes = 1 /\ x.fitsAtClose = Len(corpus))
                     => Range(DictKeys(x.ranked)) =
                            UNION {Range(WindowKeys(h, corpus[i], h.n_list[m]))
                                   : i \in 1..Len(corpus), m \in 1..Len(h.n_list)}
                  /\ (x.closes = 1 /\ Len(corpus) = 1 /\ Len(h.n_list) = 1)
                     => LET ks == WindowKeys(h, corpus[1], h.n_list[1])
                        IN  /\ DictKeys(x.ranked) = FirstOccurrences(ks)
                            /\ \A i \in 1..Len(x.ranked) :
                                   x.ranked[i].v = CountIn(ks, x.ranked[i].k)
                  /\ (calls = <<"fit", "transform">> /\ Len(h.n_list) = 1)
                     => \A i \in 1..Len(corpus) : \A c \in 1..Len(x.flist) :
                            x.inst.rows[i][c] =
                                CountIn(WindowKeys(h, corpus[i], h.n_list[1]), x.flist[c])
    /\ (calls = <<"fit", "transform">> /\ corpus = <<Inst_ab>>
          /\ helpers = <<Ngrams("token", <<1>>, <<>>)>>)
       => /\ ext[1].flist = <<K_token, K_token_a, K_token_b>>
          /\ rets[2].kind = "matrix"
          /\ rets[2].rows = <<<<2, 1, 1>>>>

\* C15 witness: the scenario's one-row matrix was returned.
C15_Witness ==
    /\ calls = <<"fit", "transform">> /\ corpus = <<Inst_ab>>
    /\ helpers = <<Ngrams("token", <<1>>, <<>>)>>
    /\ rets[2].rows = <<<<2, 1, 1>>>>

\* C16: the row a fitted Ngrams extractor appends for an empty instance (no
\* character, no token) holds 0 in every column.
C16_EmptyInstanceZeroRow ==
    (calls = <<"fit", "transform">> /\ AllExtractors)
    => \A j \in 1..Len(helpers) : \A i \in 1..Len(corpus) :
           (helpers[j].kind = "Ngrams"
               /\ Needle(helpers[j], corpus[i].raw, corpus[i].frog) = <<>>)
           => /\ Len(ext[j].inst.rows[i]) = Len(ext[j].flist)
              /\ \A c \in 1..Len(ext[j].flist) : ext[j].inst.rows[i][c] = 0

\* C17: a transform call leaves the vocabulary of every closed extractor as it
\* was, keys and order; every row it appends has one column per vocabulary key,
\* positive exactly where the key occurs in the row's instance, and all rows of
\* a block have the same width.
C17_TransformKeepsVocabulary ==
    [][(calls' = Append(calls, "transform"))
       => \A j \in 1..Len(helpers) :
              (IsExtractor(helpers[j]) /\ ext[j].closes > 0)
              => LET old == Len(ext[j].inst.rows)
                     fs == ext[j].flist
                 IN  /\ ext[j].ftype = "list"
                     /\ ext'[j].ftype = "list"
                     /\ ext'[j].flist = fs
                     /\ ext'[j].fdict = ext[j].fdict
                     /\ \A i \in 1..Len(ext'[j].inst.rows) :
                            Len(ext'[j].inst.rows[i]) = ext'[j].inst.width
                     /\ \A i \in (old + 1)..Len(ext'[j].inst.rows) :
                            /\ Len(ext'[j].inst.rows[i]) = Len(fs)
                            /\ \A c \in 1..Len(fs) :
                                   (ext'[j].inst.rows[i][c] > 0)
                                       = (Occurrences(helpers[j], corpus[i - old], fs[c]) > 0)]_vars

\* C17 witness: a closed extractor with a vocabulary was transformed twice over
\* a corpus and holds the rows of both calls.
C17_Witness ==
    /\ calls = <<"fit", "transform", "transform">>
    /\ corpus # <<>>
    /\ \E j \in 1..Len(helpers) :
           /\ IsExtractor(helpers[j])
           /\ ext[j].closes = 1
           /\ ext[j].flist # <<>>
           /\ Len(ext[j].inst.rows) = 2 * Len(corpus)

\* C19: a Featurizer.fit(C) call changes no label, calls no transform and
\* returns no matrix; it calls close_fit on an extractor at most once, and only
\* when fit has been called on that extractor for every instance of C; a fit
\* call that returns has called close_fit once on every extractor.
C19_FitClosesOnceAfterAllFits ==
    [][(calls' = Append(calls, "fit"))
       => /\ labels' = labels
          /\ rets'[Len(rets')].kind \in {"None", "raise"}
          /\ \A j \in 1..Len(helpers) :
                 IsExtractor(helpers[j])
                 => /\ ext'[j].transforms = ext[j].transforms
                    /\ ext'[j].inst = ext[j].inst
                    /\ ext'[j].closes \in {ext[j].closes, ext[j].closes + 1}
                    /\ ext'[j].closes = ext[j].closes + 1
                           => /\ ext'[j].fits = ext[j].fits + Len(corpus)
                              /\ ext'[j].fitsAtClose = ext'[j].fits
                    /\ rets'[Len(rets')].kind = "None"
                           => ext'[j].closes = ext[j].closes + 1]_vars

\* C19 witness: a fit call over two instances returned, with two fit calls and
\* then one close_fit on an extractor.
C19_Witness ==
    /\ calls = <<"fit">>
    /\ rets[1].kind = "None"
    /\ Len(corpus) = 2
    /\ \E j \in 1..Len(helpers) :
           /\ IsExtractor(helpers[j])
           /\ ext[j].fits = 2 /\ ext[j].closes = 1 /\ ext[j].fitsAtClose = 2
           /\ ext[j].flist # <<>>

\* every Featurizer call made so far returned
AllCompleted == \A i \in 1..Len(rets) : rets[i].kind # "raise"

\* s is the beginning of t
IsPrefix(s, t) == Len(s) <= Len(t) /\ SubSeq(t, 1, Len(s)) = s

\* C20: after completed fit and transform calls on instance-local extractors,
\* labels has as many entries as every transformed extractor has rows, and a
\* call only adds to the end of labels and of the rows.
C20_LabelsMatchRows ==
    [][(AllExtractors /\ AllCompleted')
       => /\ IsPrefix(labels, labels')
          /\ \A j \in 1..Len(helpers) :
                 /\ IsPrefix(ext[j].inst.rows, ext'[j].inst.rows)
                 /\ ext'[j].transforms > 0
                        => /\ ~ext'[j].inst.none
                           /\ Len(ext'[j].inst.rows) = Len(labels')
                           /\ ext'[j].transforms = Len(labels')]_vars

\* C20 witness: two transform calls over two instances returned; labels and the
\* rows of an extractor hold four entries each.
C20_Witness ==
    /\ AllExtractors /\ AllCompleted
    /\ calls = <<"fit", "transform", "transform">>
    /\ Len(labels) = 4
    /\ \E j \in 1..Len(helpers) : Len(ext[j].inst.rows) = 4 /\ ext[j].flist # <<>>

\* C18: a TokenPCA among the extractors gets exactly one fit call from
\* Featurizer.fit(C), and after Featurizer.fit(C) and Featurizer.transform(C)
\* its block has len(C) rows, as has the matrix returned.
C18_BatchExtractorFittedOnce ==
    \A j \in 1..Len(helpers) :
        helpers[j].kind = "TokenPCA"
        => /\ calls = <<"fit">> => ext[j].fits = 1
           /\ calls = <<"fit", "transform">>
                  => /\ ext[j].fits = 1
                     /\ ~ext[j].inst.none
                     /\ Len(ext[j].inst.rows) = Len(corpus)
                     /\ rets[2].kind = "matrix"
                     /\ rets[2].n = Len(corpus)

\* the weight the lexicon holds for a token: that of the first matcher, in the
\* order of token_dict, whose pattern matches the token's part-of-speech tag,
\* looked up by word and then by lemma; 0 without a matcher or an entry
ClaimedWeight(lex, token) ==
    LET word == token[1]
        lemma == token[2]
        pos == token[3]
        ms == {m \in 1..Len(token_dict) : MatchFrom(token_dict[m].regx, pos, 1)}
    IN  IF ms = {} THEN 0
        ELSE LET m == CHOOSE a \in ms : \A b \in ms : a <= b
                 param == token_dict[m].param
             IN  IF LexHas(lex, <<word, param[1]>>) THEN LexGet(lex, <<word, param[1]>>)
                 ELSE IF LexHas(lex, <<lemma, param[2]>>)
                 THEN LexGet(lex, <<lemma, param[2]>>)
                 ELSE 0

RECURSIVE ClaimedPolarity(_, _)
ClaimedPolarity(lex, frog) ==
    IF frog = <<>> THEN 0
    ELSE ClaimedWeight(lex, frog[1]) + ClaimedPolarity(lex, Tail(frog))

\* C11: every transform call of the sentiment extractor returns without error
\* and appends one row of one column, the sum over the instance's tokens of the
\* lexicon weight found for the first matcher that matches the token.
C11_SentimentSumsLexiconWeights ==
    senti.pc = "on"
    => /\ senti.err = "none"
       /\ Len(senti.inst.rows) = Len(senti.frogs)
       /\ \A i \in 1..Len(senti.frogs) :
              senti.inst.rows[i] = <<ClaimedPolarity(senti.lex, senti.frogs[i])>>

====
